---- MODULE Spec2Model ----
(***************************************************************************)
(* HubSpot lead-intake function (function_app.py).                         *)
(*                                                                         *)
(* One invocation of HubspotAdd is a chain of steps separated by the       *)
(* outbound CRM calls and by the poller's sleep.  Every CRM answer is a    *)
(* nondeterministic input.  Python's None is the empty tuple <<>> and a    *)
(* present value v is <<v>>, so that truthiness (if x:) and identity       *)
(* (x is not None) stay two different tests.                               *)
(***************************************************************************)
EXTENDS Integers, Sequences, FiniteSets, TLC

VARIABLES
    pc,                     \* position of the invocation
    req,                    \* the inbound request: method and body
    token,                  \* os.environ.get("HUBSPOT_TOKEN")
    hubspot_data,           \* the contact payload built at lines 231-255
    r,                      \* last response of the contact POST / PATCH
    contact_created,
    contact_id,
    max_retries,            \* poller parameter
    delay,                  \* poller's current delay, in 1/DelayScale units
    attempt,                \* poller's loop index (0-based)
    associations_response,  \* last outcome of the association GET
    company_id,             \* value returned by the poller
    success,                \* value returned by update_company_properties
    delay0,                 \* the delay the poller was called with
    calls,                  \* outbound calls issued so far, in order
    waits,                  \* time.sleep calls so far, in order
    responses,              \* HTTP responses returned by the invocation
    other                   \* frame of a second invocation that is not running, or None

vars == <<pc, req, token, hubspot_data, r, contact_created, contact_id,
          max_retries, delay, attempt, associations_response, company_id,
          success, delay0, calls, waits, responses, other>>

-----------------------------------------------------------------------------
(* Bounds of the input space *)

\* longest result list of an association GET
MaxResults == 2
\* largest max_retries the poller is called with when checked on its own
MaxRetriesBound == 5
\* largest initial delay (whole time units) of a poller checked on its own
MaxInitialDelay == 2

-----------------------------------------------------------------------------
(* Python values *)

None == <<>>
Some(v) == <<v>>

\* truthiness of an optional string: None and "" are falsy
TruthyStr(o) == o # None /\ o[1] # ""

\* truthiness of an optional number: None and 0 are falsy
TruthyInt(o) == o # None /\ o[1] # 0

\* dict.get(key) and dict.get(key, "")
Get(d, k) == IF k \in DOMAIN d THEN Some(d[k]) ELSE None
GetOr(d, k, dflt) == IF k \in DOMAIN d THEN d[k] ELSE dflt

\* delays are kept as integers, in units of 1/DelayScale, so that 1.5x is exact
DelayScale == 2 ^ 10
Times1_5(d) == (d * 3) \div 2

-----------------------------------------------------------------------------
(* Territory tables, lines 210-229 (HubspotAdd) and 55-77 (company update) *)

filtered_country_codes ==
    { "AG", "AI", "AW", "BS", "BB", "BZ", "BM", "CA", "CR", "CU", "CW", "DM", "DO",
      "SV", "GD", "GP", "GT", "HT", "HN", "JM", "MQ", "MX", "MS", "NI", "PA", "PR",
      "KN", "LC", "MF", "PM", "VC", "SX", "TT", "US", "VG", "VI",
      "AS", "AU", "CK", "FJ", "PF", "GU", "KI", "MH", "FM", "NR", "NC", "NZ", "NU",
      "NF", "MP", "PW", "PG", "PN", "WS", "SB", "TK", "TO", "TV", "VU", "WF",
      "AR", "BO", "BR", "CL", "CO", "EC", "FK", "GF", "GY", "PY", "PE", "SR", "UY", "VE" }

a_rated_countries ==
    { "US", "CA", "AU", "NZ", "GB", "DE", "FR", "NL",
      "SE", "CH", "NO", "FI", "DK", "BE", "AT", "JP",
      "KR", "SG" }

\* the handler's copy, lines 228-229
SalesOffice(c) == IF c \in filtered_country_codes THEN "BPA US" ELSE "BPA CH"
MarketType(c) == IF c \in a_rated_countries THEN "A" ELSE "B"

\* update_company_properties' own tables, lines 55-71 (the same local names
\* as in HubspotAdd)
company_filtered_country_codes ==
    { "AG", "AI", "AW", "BS", "BB", "BZ", "BM", "CA", "CR", "CU", "CW", "DM", "DO",
      "SV", "GD", "GP", "GT", "HT", "HN", "JM", "MQ", "MX", "MS", "NI", "PA", "PR",
      "KN", "LC", "MF", "PM", "VC", "SX", "TT", "US", "VG", "VI",
      "AS", "AU", "CK", "FJ", "PF", "GU", "KI", "MH", "FM", "NR", "NC", "NZ", "NU",
      "NF", "MP", "PW", "PG", "PN", "WS", "SB", "TK", "TO", "TV", "VU", "WF",
      "AR", "BO", "BR", "CL", "CO", "EC", "FK", "GF", "GY", "PY", "PE", "SR", "UY", "VE" }

company_a_rated_countries ==
    { "US", "CA", "AU", "NZ", "GB", "DE", "FR", "NL",
      "SE", "CH", "NO", "FI", "DK", "BE", "AT", "JP",
      "KR", "SG" }

\* the company's tier read off the office table
CompanyMarketType_FromOffice(c) ==
    IF c \in company_filtered_country_codes THEN "A" ELSE "B"

\* update_company_properties' copy, lines 73-77
CompanySalesOffice(c) ==
    IF c \in company_filtered_country_codes THEN "BPA US" ELSE "BPA CH"
CompanyMarketType(c) == IF c \in company_a_rated_countries THEN "A" ELSE "B"
SalesAccountManager(office) ==
    IF office = "BPA US" THEN "Sebastien Rocco" ELSE "Damien Emery"

\* pycountry.countries.get(alpha_2=c): the country's name, or None
CountryNames ==
    ("US" :> "United States") @@ ("BR" :> "Brazil") @@
    ("CH" :> "Switzerland") @@ ("IN" :> "India")
CountryLookup(c) == IF c \in DOMAIN CountryNames THEN Some(CountryNames[c]) ELSE None

-----------------------------------------------------------------------------
(* Inbound requests *)

Methods == {"OPTIONS", "POST", "GET"}

\* submitted country codes: US office tier A, US office tier B, CH office
\* tier A, CH office tier B, a code no country has, and the empty code
Countries == {"US", "BR", "CH", "IN", "ZZ", ""}

RequiredValues == {"", "x"}
UserKeys == {"Email", "FirstName", "LastName", "Country"}
UserValues(k) == IF k = "Country" THEN Countries ELSE RequiredValues

\* the UserDetails objects: every subset of the keys, every value of each
Users ==
    UNION { { u \in [K -> Countries \cup RequiredValues] :
                \A k \in K : u[k] \in UserValues(k) } : K \in SUBSET UserKeys }

\* What the body is:
\*   undecodable   bytes that are not UTF-8
\*   invalid_json  text that json.loads rejects
\*   scalar        JSON null, number or boolean
\*   seq_without   JSON string or array in which "UserDetails" does not occur
\*   seq_with      JSON string or array in which "UserDetails" occurs
\*   object        JSON object; ud is None (no UserDetails key) or Some of
\*                 its UserDetails value: an object with the keys of user,
\*                 or (is_object FALSE) a value that is no object
NonObjectKinds == {"undecodable", "invalid_json", "scalar", "seq_without", "seq_with"}

Bodies ==
    { [kind |-> k, ud |-> None] : k \in NonObjectKinds \cup {"object"} }
    \cup { [kind |-> "object", ud |-> Some([is_object |-> FALSE, user |-> <<>>])] }
    \cup { [kind |-> "object", ud |-> Some([is_object |-> TRUE, user |-> u])] : u \in Users }

Requests == [method : Methods, body : Bodies]

\* the environment's token: unset, set to the empty string, or set
Tokens == {None, Some(""), Some("tok")}

-----------------------------------------------------------------------------
(* CRM answers *)

ContactIds == {"42", "43"}
CompanyIds == {0, 99}
Texts == {"t1", "t2"}

\* A contact POST / PATCH either fails at transport level or answers with a
\* status, a raw text and a body that holds an id (Some) or none (None).
ContactStatuses == {201, 400, 409, 500}
ContactAnswers ==
    { [error |-> TRUE, status_code |-> 0, text |-> "", id |-> None] }
    \cup [error : {FALSE}, status_code : ContactStatuses, text : Texts,
          id : {None} \cup {Some(i) : i \in ContactIds}]

\* result lists of an association GET: the toObjectId of each result
ResultLists == UNION { [1..n -> CompanyIds] : n \in 0..MaxResults }

\* An association GET fails at transport level, answers a non-200 status,
\* answers 200 with a body that is not the expected JSON (malformed), or
\* answers 200 with a result list.
AssociationAnswers ==
    { [error |-> TRUE, status_code |-> 0, malformed |-> FALSE, results |-> <<>>],
      [error |-> FALSE, status_code |-> 500, malformed |-> FALSE, results |-> <<>>],
      [error |-> FALSE, status_code |-> 200, malformed |-> TRUE, results |-> <<>>] }
    \cup [error : {FALSE}, status_code : {200}, malformed : {FALSE}, results : ResultLists]

NoAssociationAnswer ==
    [error |-> FALSE, status_code |-> 0, malformed |-> FALSE, results |-> <<>>]

\* A company PATCH fails at transport level or answers with a status.
CompanyAnswers ==
    { [error |-> TRUE, status_code |-> 0] }
    \cup [error : {FALSE}, status_code : {200, 400, 404, 500}]

NoContactAnswer == [error |-> FALSE, status_code |-> 0, text |-> "", id |-> None]

-----------------------------------------------------------------------------
(* HTTP responses of the function *)

\* json.dumps(obj): a text that parses back to obj
JsonDumps(obj) == [raw |-> "json", parsed |-> Some(obj)]

\* the literal "" of the preflight response: a text that does not parse as JSON
EmptyText == [raw |-> "", parsed |-> None]

HttpResponse(body, status_code, headers) ==
    [body |-> body, status_code |-> status_code, headers |-> headers]

CorsHeaders == ("Access-Control-Allow-Origin" :> "*")

PreflightHeaders ==
    ("Access-Control-Allow-Origin" :> "*") @@
    ("Access-Control-Allow-Methods" :> "POST, OPTIONS") @@
    ("Access-Control-Allow-Headers" :> "Content-Type, Authorization, User-Agent")

\* lines 136-144
PreflightResponse == HttpResponse(EmptyText, 200, PreflightHeaders)

\* lines 149-154
MethodNotAllowedResponse ==
    HttpResponse(JsonDumps("message" :> "Only POST method allowed"), 405, CorsHeaders)

\* a 400 that carries a fixed message instead of the text it is given
BadRequestResponse_FixedMessage(message) ==
    HttpResponse(JsonDumps("message" :> "Bad request"), 400, CorsHeaders)

\* lines 163-168, 173-178, 185-190 and the CRM's 400 at 284-289, 313-318
BadRequestResponse(message) ==
    HttpResponse(JsonDumps("message" :> message), 400, CorsHeaders)

\* the missing-token answer sent as a bare text
MissingTokenResponse_PlainText ==
    HttpResponse([raw |-> "Server misconfiguration: missing token", parsed |-> None],
                 500, CorsHeaders)

\* lines 261-266
MissingTokenResponse ==
    HttpResponse(JsonDumps("message" :> "Server misconfiguration: missing token"),
                 500, CorsHeaders)

\* the update's transport failure left to the top-level except
PatchFailedResponse_TopLevel(err) ==
    HttpResponse(JsonDumps(("message" :> "Internal server error") @@ ("error" :> err)),
                 500, CorsHeaders)

\* lines 305-310
PatchFailedResponse(err) ==
    HttpResponse(JsonDumps(("message" :> "PATCH update failed") @@ ("error" :> err)),
                 500, CorsHeaders)

\* the top-level except with the CORS header forgotten
InternalErrorResponse_NoCors(err) ==
    HttpResponse(JsonDumps(("message" :> "Internal server error") @@ ("error" :> err)),
                 500, ("Content-Type" :> "application/json"))

\* lines 355-362: the top-level except
InternalErrorResponse(err) ==
    HttpResponse(JsonDumps(("message" :> "Internal server error") @@ ("error" :> err)),
                 500, CorsHeaders)

\* the flag set whatever the poller returned
CompanyUpdatedFlag_Always(cid) == TRUE

\* line 348
CompanyUpdatedFlag(cid) == cid # None

\* lines 344-353
SuccessResponse(cid) ==
    HttpResponse(JsonDumps(("message" :> "Lead processed successfully") @@
                           ("timestamp" :> "utcnow") @@
                           ("company_updated" :> CompanyUpdatedFlag(cid))),
                 200, CorsHeaders)

-----------------------------------------------------------------------------
(* HubspotAdd up to the first outbound call, lines 128-271 *)

\* line 181
required_fields == <<"Email", "FirstName", "LastName">>

\* line 183: not user.get(field)
FieldMissing(user, field) == ~TruthyStr(Get(user, field))

\* lines 182-190: the first required field, in order, that is missing; None if none is
FirstMissing(user) ==
    LET missing == { i \in 1..Len(required_fields) :
                        FieldMissing(user, required_fields[i]) }
    IN  IF missing = {} THEN None
        ELSE Some(required_fields[CHOOSE i \in missing : \A j \in missing : i <= j])

\* the token tested against None only, so that an empty token passes
TokenMissing_OnlyNone(tok) == tok = None

\* line 259: not token
TokenMissing(tok) == ~TruthyStr(tok)

\* lines 206-255: the contact payload.  Phone, Company, Title, OfferTitle and
\* Description are copied into the payload and read by no branch; they are
\* left out of the request and of the payload.
BuildContact(user) ==
    LET c == GetOr(user, "Country", "")
        country == IF c # "" THEN CountryLookup(c) ELSE None
        props == [ email |-> GetOr(user, "Email", ""),
                   firstname |-> GetOr(user, "FirstName", ""),
                   lastname |-> GetOr(user, "LastName", ""),
                   country_code |-> c,
                   lifecyclestage |-> "marketingqualifiedlead",
                   lead_source |-> "AzureMarketplace",
                   contact_origin |-> "Marketplace",
                   account_type |-> "Inbound Lead",
                   bpa_sales_office |-> SalesOffice(c),
                   market_type |-> MarketType(c),
                   country_region_code |-> c ]
    IN  IF country # None
        THEN props @@ ("country" :> country[1]) @@ ("country_name" :> country[1])
        ELSE props

\* lines 79-90: the company payload
BuildCompany(user_country) ==
    LET country == IF user_country # "" THEN CountryLookup(user_country) ELSE None
        props == [ bpa_sales_office |-> CompanySalesOffice(user_country),
                   market_type |-> CompanyMarketType(user_country),
                   sales_account_manager |->
                       SalesAccountManager(CompanySalesOffice(user_country)),
                   country_region_code |-> user_country ]
    IN  IF country # None THEN props @@ ("country" :> country[1]) ELSE props

\* lines 135-266: the response the handler returns before any outbound call,
\* or None when the request passes every check
EarlyResponse(request, tok) ==
    LET body == request.body IN
    IF request.method = "OPTIONS" THEN Some(PreflightResponse)
    ELSE IF request.method # "POST" THEN Some(MethodNotAllowedResponse)
    ELSE IF body.kind = "undecodable" THEN Some(InternalErrorResponse("UnicodeDecodeError"))
    ELSE IF body.kind = "invalid_json" THEN Some(BadRequestResponse("Invalid JSON format"))
    ELSE IF body.kind = "scalar" THEN Some(InternalErrorResponse("TypeError"))
    ELSE IF body.kind = "seq_without" THEN Some(BadRequestResponse("UserDetails is required"))
    ELSE IF body.kind = "seq_with" THEN Some(InternalErrorResponse("TypeError"))
    ELSE IF body.ud = None THEN Some(BadRequestResponse("UserDetails is required"))
    ELSE IF ~body.ud[1].is_object THEN Some(InternalErrorResponse("AttributeError"))
    ELSE IF FirstMissing(body.ud[1].user) # None
         THEN Some(BadRequestResponse("Required field missing: "
                                      \o FirstMissing(body.ud[1].user)[1]))
    ELSE IF TokenMissing(tok) THEN Some(MissingTokenResponse)
    ELSE None

\* user.get("Country", "") of the request being handled
UserCountry == GetOr(req.body.ud[1].user, "Country", "")

-----------------------------------------------------------------------------
(* Outbound calls *)

\* Each call is logged with what was sent and with the status it came back
\* with; a call that failed at transport level has status 0.
StatusOf(answer) == IF answer.error THEN 0 ELSE answer.status_code

\* requests.post(create_url, json=hubspot_data), line 276
CreateCall(data, answer) ==
    [op |-> "POST", url |-> "contacts", target |-> None, json |-> data,
     status_code |-> StatusOf(answer)]

\* requests.patch(update_url, json=hubspot_data), lines 292-300
UpdateCall(email, data, answer) ==
    [op |-> "PATCH", url |-> "contacts", target |-> Some(email), json |-> data,
     status_code |-> StatusOf(answer)]

\* requests.get(associations_url), lines 21-22
AssociationsCall(cid, answer) ==
    [op |-> "GET", url |-> "associations", target |-> Some(cid), json |-> None,
     status_code |-> StatusOf(answer)]

\* requests.patch(company_update_url, json=company_update_data), lines 92-100
CompanyCall(cid, data, answer) ==
    [op |-> "PATCH", url |-> "companies", target |-> Some(cid), json |-> data,
     status_code |-> StatusOf(answer)]

-----------------------------------------------------------------------------
(* Initial states *)

Idle ==
    /\ other = None
    /\ hubspot_data = None
    /\ r = NoContactAnswer
    /\ contact_created = FALSE
    /\ associations_response = NoAssociationAnswer
    /\ company_id = None
    /\ success = FALSE
    /\ calls = <<>>
    /\ waits = <<>>
    /\ responses = <<>>

\* an invocation of HubspotAdd about to start
Init ==
    /\ pc = "start"
    /\ req \in Requests
    /\ token \in Tokens
    /\ contact_id = None
    /\ max_retries = 0
    /\ delay = 0
    /\ delay0 = 0
    /\ attempt = 0
    /\ Idle

\* a call of wait_for_company_association about to start
PollInit ==
    /\ pc = "poll"
    /\ req = [method |-> "POST", body |-> [kind |-> "object", ud |-> None]]
    /\ token = Some("tok")
    /\ contact_id \in {Some(i) : i \in ContactIds}
    /\ max_retries \in 0..MaxRetriesBound
    /\ delay \in {d * DelayScale : d \in 0..MaxInitialDelay}
    /\ delay0 = delay
    /\ attempt = 0
    /\ Idle

-----------------------------------------------------------------------------
(* Steps of HubspotAdd *)

\* return func.HttpResponse(...)
Return(resp) ==
    /\ responses' = Append(responses, resp)
    /\ pc' = "done"

\* wait_for_company_association(contact_id, headers, max_retries=m, delay=d)
CallPoller(m, d) ==
    /\ max_retries' = m
    /\ delay' = d * DelayScale
    /\ delay0' = d * DelayScale
    /\ attempt' = 0
    /\ pc' = "poll"

PollerUnchanged == UNCHANGED <<max_retries, delay, delay0, attempt>>

\* lines 128-271: method check, validation, payload, token
Start ==
    /\ pc = "start"
    /\ LET early == EarlyResponse(req, token) IN
       IF early # None
       THEN /\ Return(early[1])
            /\ UNCHANGED hubspot_data
       ELSE /\ hubspot_data' = Some(BuildContact(req.body.ud[1].user))
            /\ pc' = "create"
            /\ UNCHANGED responses
    /\ PollerUnchanged
    /\ UNCHANGED <<other, req, token, r, contact_created, contact_id,
                   associations_response, company_id, success, calls, waits>>

\* line 282 and line 311
IsBadRequest(status_code) == status_code = 400

\* the conflict test widened to every status from 409 up
IsConflict_AnyFrom409(status_code) == status_code >= 409

\* no status taken as a conflict
IsConflict_Never(status_code) == FALSE

\* line 291
IsConflict(status_code) == status_code = 409

\* one attempt more on the created path
CreatedMaxRetries_Six == 5 + 1

\* line 328: max_retries=5, delay=2
CreatedMaxRetries == 5
CreatedDelay == 2

\* the single check of the update path turned into two attempts
UpdatedMaxRetries_Two == 1 + 1

\* line 331: max_retries=1, delay=0
UpdatedMaxRetries == 1
UpdatedDelay == 0

\* lines 322-331: contact_id = r.json()["id"], then the poller is called;
\* a body without an id raises, which the top-level except turns into a 500
ExtractIdAndPoll(answer, m, d) ==
    IF answer.id = None
    THEN /\ Return(InternalErrorResponse("KeyError"))
         /\ UNCHANGED contact_id
         /\ PollerUnchanged
    ELSE /\ contact_id' = answer.id
         /\ CallPoller(m, d)
         /\ UNCHANGED responses

\* lines 273-331: the create POST and what follows it up to the next call
CreateContact ==
    /\ pc = "create"
    /\ \E answer \in ContactAnswers :
         /\ calls' = Append(calls, CreateCall(hubspot_data[1], answer))
         /\ r' = answer
         /\ IF answer.error
            THEN /\ Return(InternalErrorResponse("ConnectionError"))
                 /\ UNCHANGED <<contact_created, contact_id>>
                 /\ PollerUnchanged
            ELSE IF IsBadRequest(answer.status_code)
            THEN /\ Return(BadRequestResponse(answer.text))
                 /\ contact_created' = FALSE
                 /\ UNCHANGED contact_id
                 /\ PollerUnchanged
            ELSE IF IsConflict(answer.status_code)
            THEN /\ pc' = "update"
                 /\ contact_created' = FALSE
                 /\ UNCHANGED <<contact_id, responses>>
                 /\ PollerUnchanged
            ELSE /\ contact_created' = TRUE
                 /\ ExtractIdAndPoll(answer, CreatedMaxRetries, CreatedDelay)
    /\ UNCHANGED <<other, req, token, hubspot_data, associations_response, company_id,
                   success, waits>>

\* lines 292-331: the update PATCH and what follows it up to the next call
UpdateContact ==
    /\ pc = "update"
    /\ \E answer \in ContactAnswers :
         /\ calls' = Append(calls, UpdateCall(req.body.ud[1].user["Email"],
                                              hubspot_data[1], answer))
         /\ IF answer.error
            THEN /\ Return(PatchFailedResponse("ConnectionError"))
                 /\ UNCHANGED <<r, contact_id>>
                 /\ PollerUnchanged
            ELSE /\ r' = answer
                 /\ IF IsBadRequest(answer.status_code)
                    THEN /\ Return(BadRequestResponse(answer.text))
                         /\ UNCHANGED contact_id
                         /\ PollerUnchanged
                    ELSE ExtractIdAndPoll(answer, UpdatedMaxRetries, UpdatedDelay)
    /\ UNCHANGED <<other, req, token, hubspot_data, contact_created,
                   associations_response, company_id, success, waits>>

-----------------------------------------------------------------------------
(* wait_for_company_association, lines 12-42 *)

\* lines 24-26: status 200 and a non-empty result list
AssociationFound(answer) ==
    answer.status_code = 200 /\ Len(answer.results) > 0

\* the last result taken instead of the first
FirstResultId_Last(results) == results[Len(results)]

\* line 27: associations_data["results"][0]["toObjectId"]
FirstResultId(results) == results[1]

\* the test that also lets the last attempt sleep
AttemptsRemain_IncludingLast(a, m) == a < m

\* lines 31 and 38: attempt < max_retries - 1
AttemptsRemain(a, m) == a < m - 1

\* line 34: delay *= 1.5
Backoff(d) == Times1_5(d)

\* line 39 is followed by no change of delay
BackoffAfterError(d) == d

\* lines 19-39: one attempt, up to its return, its sleep or the end of the loop body
PollAttempt ==
    /\ pc = "poll"
    /\ attempt < max_retries
    /\ \E answer \in AssociationAnswers :
         /\ calls' = Append(calls, AssociationsCall(contact_id[1], answer))
         /\ associations_response' = answer
         /\ IF answer.error \/ answer.malformed
            THEN \* except Exception, lines 36-39
                 /\ IF AttemptsRemain(attempt, max_retries)
                    THEN pc' = "sleep_except" /\ UNCHANGED attempt
                    ELSE pc' = "poll" /\ attempt' = attempt + 1
                 /\ UNCHANGED company_id
            ELSE IF AssociationFound(answer)
            THEN \* lines 27-29
                 /\ company_id' = Some(FirstResultId(answer.results))
                 /\ pc' = "polled"
                 /\ UNCHANGED attempt
            ELSE \* lines 31-34
                 /\ IF AttemptsRemain(attempt, max_retries)
                    THEN pc' = "sleep" /\ UNCHANGED attempt
                    ELSE pc' = "poll" /\ attempt' = attempt + 1
                 /\ UNCHANGED company_id
    /\ UNCHANGED <<other, req, token, hubspot_data, r, contact_created, contact_id,
                   max_retries, delay, delay0, success, waits, responses>>

\* time.sleep(delay), recorded with the attempt (1-based) it follows
Sleep(d) == waits' = Append(waits, [seconds |-> d, after |-> attempt + 1])

\* lines 33-34: the sleep of the normal path, then the backoff
PollSleep ==
    /\ pc = "sleep"
    /\ Sleep(delay)
    /\ delay' = Backoff(delay)
    /\ attempt' = attempt + 1
    /\ pc' = "poll"
    /\ UNCHANGED <<other, req, token, hubspot_data, r, contact_created, contact_id,
                   max_retries, delay0, associations_response, company_id,
                   success, calls, responses>>

\* line 39: the sleep of the except path
PollSleepExcept ==
    /\ pc = "sleep_except"
    /\ Sleep(delay)
    /\ delay' = BackoffAfterError(delay)
    /\ attempt' = attempt + 1
    /\ pc' = "poll"
    /\ UNCHANGED <<other, req, token, hubspot_data, r, contact_created, contact_id,
                   max_retries, delay0, associations_response, company_id,
                   success, calls, responses>>

\* lines 41-42: the loop is over, return None
PollExhausted ==
    /\ pc = "poll"
    /\ attempt >= max_retries
    /\ company_id' = None
    /\ pc' = "polled"
    /\ UNCHANGED <<other, req, token, hubspot_data, r, contact_created, contact_id,
                   max_retries, delay, delay0, attempt, associations_response,
                   success, calls, waits, responses>>

-----------------------------------------------------------------------------
(* HubspotAdd after the poller, lines 333-353, and update_company_properties *)

\* line 334: if company_id
CompanyResolved(cid) == TruthyInt(cid)

\* lines 105-121: True for status 200, False for any other status or an exception
CompanyUpdateSucceeded(answer) == ~answer.error /\ answer.status_code = 200

\* lines 334-353 when no company PATCH is made
SkipCompany ==
    /\ pc = "polled"
    /\ ~CompanyResolved(company_id)
    /\ Return(SuccessResponse(company_id))
    /\ PollerUnchanged
    /\ UNCHANGED <<other, req, token, hubspot_data, r, contact_created, contact_id,
                   associations_response, company_id, success, calls, waits>>

\* a company PATCH whose transport failure is not caught and fails the request
UpdateCompany_FailureEscapes ==
    /\ pc = "polled"
    /\ CompanyResolved(company_id)
    /\ \E answer \in CompanyAnswers :
         /\ calls' = Append(calls, CompanyCall(company_id[1], BuildCompany(UserCountry), answer))
         /\ success' = CompanyUpdateSucceeded(answer)
         /\ IF answer.error
            THEN Return(InternalErrorResponse("ConnectionError"))
            ELSE Return(SuccessResponse(company_id))
    /\ PollerUnchanged
    /\ UNCHANGED <<other, req, token, hubspot_data, r, contact_created, contact_id,
                   associations_response, company_id, waits>>

\* lines 334-353 with the company PATCH of lines 51-121
UpdateCompany ==
    /\ pc = "polled"
    /\ CompanyResolved(company_id)
    /\ \E answer \in CompanyAnswers :
         /\ calls' = Append(calls, CompanyCall(company_id[1], BuildCompany(UserCountry), answer))
         /\ success' = CompanyUpdateSucceeded(answer)
    /\ Return(SuccessResponse(company_id))
    /\ PollerUnchanged
    /\ UNCHANGED <<other, req, token, hubspot_data, r, contact_created, contact_id,
                   associations_response, company_id, waits>>

-----------------------------------------------------------------------------
(* Specifications *)

Next ==
    \/ Start
    \/ CreateContact
    \/ UpdateContact
    \/ PollAttempt
    \/ PollSleep
    \/ PollSleepExcept
    \/ PollExhausted
    \/ SkipCompany
    \/ UpdateCompany

\* one invocation of HubspotAdd
Spec == Init /\ [][Next]_vars

\* one invocation in which every outbound call returns or fails (timeout=30,
\* lines 22, 95, 276, 300) and every sleep ends (line 33): a step that can be
\* taken is taken
FairSpec == Spec /\ WF_vars(Next)

\* every country code of the four tables, a code of none, and the empty code
ClassifyCodes ==
    filtered_country_codes \cup a_rated_countries
    \cup company_filtered_country_codes \cup company_a_rated_countries
    \cup {"ZZ", ""}

\* valid UserDetails with each of these codes as Country, and without Country
ClassifyUsers ==
    LET required == ("Email" :> "x") @@ ("FirstName" :> "x") @@ ("LastName" :> "x")
    IN  {required} \cup { required @@ ("Country" :> c) : c \in ClassifyCodes }

\* a valid POST with any of these users, the token set
ClassifyInit ==
    /\ pc = "start"
    /\ req \in { [method |-> "POST",
                  body |-> [kind |-> "object",
                            ud |-> Some([is_object |-> TRUE, user |-> u])]] :
                 u \in ClassifyUsers }
    /\ token = Some("tok")
    /\ contact_id = None
    /\ max_retries = 0
    /\ delay = 0
    /\ delay0 = 0
    /\ attempt = 0
    /\ Idle

\* the CRM creates the contact or reports that it exists
ContactAccepted ==
    /\ CreateContact
    /\ r' \in { [error |-> FALSE, status_code |-> s, text |-> "t1", id |-> Some("42")] :
                 s \in {201, 409} }

\* the CRM accepts the update
ContactUpdated ==
    /\ UpdateContact
    /\ r' = [error |-> FALSE, status_code |-> 201, text |-> "t1", id |-> Some("42")]

\* the first association GET finds company 99
CompanyAssociated ==
    /\ PollAttempt
    /\ associations_response' =
         [error |-> FALSE, status_code |-> 200, malformed |-> FALSE, results |-> <<99>>]

ClassifyNext ==
    \/ Start
    \/ ContactAccepted
    \/ ContactUpdated
    \/ CompanyAssociated
    \/ UpdateCompany

\* one invocation for every country code, led up to its company PATCH
ClassifySpec == ClassifyInit /\ [][ClassifyNext]_vars

\* the submitted emails
IdemEmails == {"x", "y"}

\* valid POSTs that differ in the Email
IdemRequests ==
    { [method |-> "POST",
       body |-> [kind |-> "object",
                 ud |-> Some([is_object |-> TRUE,
                              user |-> ("Email" :> e) @@ ("FirstName" :> "x") @@
                                       ("LastName" :> "x") @@ ("Country" :> "US")])]] :
      e \in IdemEmails }

\* the first of the submissions about to start
IdemInit ==
    /\ pc = "start"
    /\ req \in IdemRequests
    /\ token = Some("tok")
    /\ contact_id = None
    /\ max_retries = 0
    /\ delay = 0
    /\ delay0 = 0
    /\ attempt = 0
    /\ Idle

\* The CRM behind create_url and update_url keeps its contacts by email: it
\* knows an email once a create POST for it has come back 201.
CrmKnows(email) ==
    \E i \in 1..Len(calls) :
        /\ calls[i].op = "POST"
        /\ calls[i].json.email = email
        /\ calls[i].status_code = 201

CrmContactId(email) == IF email = "x" THEN "42" ELSE "43"

\* line 276 answered by this CRM: 409 for an email it knows, else 201 with
\* the id of the new contact
CrmCreate ==
    /\ CreateContact
    /\ r' = IF CrmKnows(hubspot_data[1].email)
            THEN [error |-> FALSE, status_code |-> 409, text |-> "t1", id |-> None]
            ELSE [error |-> FALSE, status_code |-> 201, text |-> "t1",
                  id |-> Some(CrmContactId(hubspot_data[1].email))]

\* line 300 answered by this CRM: the contact it knows is updated and comes
\* back with its id (status 201 stands for every status that is not 400,
\* which lines 311-322 treat alike)
CrmUpdate ==
    /\ UpdateContact
    /\ CrmKnows(hubspot_data[1].email)
    /\ r' = [error |-> FALSE, status_code |-> 201, text |-> "t1",
             id |-> Some(CrmContactId(hubspot_data[1].email))]

\* line 22 answered with a transport failure, no association, or company 99
CrmAssociations ==
    /\ PollAttempt
    /\ associations_response' \in
         { [error |-> TRUE, status_code |-> 0, malformed |-> FALSE, results |-> <<>>],
           [error |-> FALSE, status_code |-> 200, malformed |-> FALSE, results |-> <<>>],
           [error |-> FALSE, status_code |-> 200, malformed |-> FALSE, results |-> <<99>>] }

\* the same client submits again once the first submission is answered: a
\* new invocation, whose locals are fresh, against the same CRM
Resubmit ==
    /\ pc = "done"
    /\ Len(responses) = 1
    /\ req' \in IdemRequests
    /\ pc' = "start"
    /\ hubspot_data' = None
    /\ r' = NoContactAnswer
    /\ contact_created' = FALSE
    /\ contact_id' = None
    /\ max_retries' = 0
    /\ delay' = 0
    /\ delay0' = 0
    /\ attempt' = 0
    /\ associations_response' = NoAssociationAnswer
    /\ company_id' = None
    /\ success' = FALSE
    /\ UNCHANGED <<other, token, calls, waits, responses>>

IdemNext ==
    \/ Start
    \/ CrmCreate
    \/ CrmUpdate
    \/ CrmAssociations
    \/ PollSleep
    \/ PollSleepExcept
    \/ PollExhausted
    \/ SkipCompany
    \/ UpdateCompany
    \/ Resubmit

\* two successive invocations against one CRM
IdemSpec == IdemInit /\ [][IdemNext]_vars

\* The frame of the running invocation: the locals of HubspotAdd and of the
\* functions it calls, with what the invocation has sent, slept and returned.
\* The module level holds app and the imports only; the token is read from
\* the environment and stays outside the frame.
Locals ==
    [ pc |-> pc, req |-> req, hubspot_data |-> hubspot_data, r |-> r,
      contact_created |-> contact_created, contact_id |-> contact_id,
      max_retries |-> max_retries, delay |-> delay, attempt |-> attempt,
      associations_response |-> associations_response,
      company_id |-> company_id, success |-> success, delay0 |-> delay0,
      calls |-> calls, waits |-> waits, responses |-> responses ]

\* the poller's delay kept at module level: it is not part of the frame
Restore_SharedDelay(frame) ==
    /\ pc' = frame.pc
    /\ req' = frame.req
    /\ hubspot_data' = frame.hubspot_data
    /\ r' = frame.r
    /\ contact_created' = frame.contact_created
    /\ contact_id' = frame.contact_id
    /\ max_retries' = frame.max_retries
    /\ UNCHANGED delay
    /\ attempt' = frame.attempt
    /\ associations_response' = frame.associations_response
    /\ company_id' = frame.company_id
    /\ success' = frame.success
    /\ delay0' = frame.delay0
    /\ calls' = frame.calls
    /\ waits' = frame.waits
    /\ responses' = frame.responses

\* an invocation goes on with the values of its own frame
Restore(frame) ==
    /\ pc' = frame.pc
    /\ req' = frame.req
    /\ hubspot_data' = frame.hubspot_data
    /\ r' = frame.r
    /\ contact_created' = frame.contact_created
    /\ contact_id' = frame.contact_id
    /\ max_retries' = frame.max_retries
    /\ delay' = frame.delay
    /\ attempt' = frame.attempt
    /\ associations_response' = frame.associations_response
    /\ company_id' = frame.company_id
    /\ success' = frame.success
    /\ delay0' = frame.delay0
    /\ calls' = frame.calls
    /\ waits' = frame.waits
    /\ responses' = frame.responses

\* a valid POST
ConcRequest(email, country) ==
    [method |-> "POST",
     body |-> [kind |-> "object",
               ud |-> Some([is_object |-> TRUE,
                            user |-> ("Email" :> email) @@ ("FirstName" :> "x") @@
                                     ("LastName" :> "x") @@ ("Country" :> country)])]]

\* the frame of an invocation about to start
StartFrame(request) ==
    [ pc |-> "start", req |-> request, hubspot_data |-> None, r |-> NoContactAnswer,
      contact_created |-> FALSE, contact_id |-> None,
      max_retries |-> 0, delay |-> 0, attempt |-> 0,
      associations_response |-> NoAssociationAnswer,
      company_id |-> None, success |-> FALSE, delay0 |-> 0,
      calls |-> <<>>, waits |-> <<>>, responses |-> <<>> ]

\* two invocations about to start, with requests that differ in every field
\* the handler reads
ConcInit ==
    /\ token = Some("tok")
    /\ other = Some(StartFrame(ConcRequest("y", "IN")))
    /\ pc = "start"
    /\ req = ConcRequest("x", "US")
    /\ hubspot_data = None
    /\ r = NoContactAnswer
    /\ contact_created = FALSE
    /\ contact_id = None
    /\ max_retries = 0
    /\ delay = 0
    /\ delay0 = 0
    /\ attempt = 0
    /\ associations_response = NoAssociationAnswer
    /\ company_id = None
    /\ success = FALSE
    /\ calls = <<>>
    /\ waits = <<>>
    /\ responses = <<>>

\* line 276 answered 201 with the id of the new contact, or 409
ContactAnswered ==
    /\ CreateContact
    /\ r' \in { [error |-> FALSE, status_code |-> 201, text |-> "t1",
                  id |-> Some(CrmContactId(hubspot_data[1].email))],
                 [error |-> FALSE, status_code |-> 409, text |-> "t1", id |-> None] }

\* line 300 answered with the id of the updated contact
UpdateAnswered ==
    /\ UpdateContact
    /\ r' = [error |-> FALSE, status_code |-> 201, text |-> "t1",
             id |-> Some(CrmContactId(hubspot_data[1].email))]

\* the host runs the other invocation: the running one is set aside at the
\* place it has reached, its sleep included, and the other goes on
Switch ==
    /\ other # None
    /\ other[1].pc # "done"
    /\ other' = Some(Locals)
    /\ Restore(other[1])
    /\ UNCHANGED token

\* a step of the running invocation
InvocationStep ==
    \/ Start
    \/ ContactAnswered
    \/ UpdateAnswered
    \/ CrmAssociations
    \/ PollSleep
    \/ PollSleepExcept
    \/ PollExhausted
    \/ SkipCompany
    \/ UpdateCompany

ConcNext == InvocationStep \/ Switch

\* two invocations served concurrently, interleaved at every step
ConcSpec == ConcInit /\ [][ConcNext]_vars

PollNext ==
    \/ PollAttempt
    \/ PollSleep
    \/ PollSleepExcept
    \/ PollExhausted

\* one call of wait_for_company_association, for any max_retries and delay
PollSpec == PollInit /\ [][PollNext]_vars

TypeOK ==
    /\ pc \in {"start", "create", "update", "poll", "sleep", "sleep_except",
               "polled", "done"}
    /\ attempt \in 0..(MaxRetriesBound + CreatedMaxRetries)
    /\ Len(responses) <= 1

-----------------------------------------------------------------------------
(* Vocabulary of the properties *)

IsCreate(c) == c.op = "POST" /\ c.url = "contacts"
IsUpdate(c) == c.op = "PATCH" /\ c.url = "contacts"
IsAssociationGet(c) == c.op = "GET" /\ c.url = "associations"
IsCompanyPatch(c) == c.op = "PATCH" /\ c.url = "companies"

Creates == { i \in 1..Len(calls) : IsCreate(calls[i]) }
Updates == { i \in 1..Len(calls) : IsUpdate(calls[i]) }
AssociationGets == { i \in 1..Len(calls) : IsAssociationGet(calls[i]) }
CompanyPatches == { i \in 1..Len(calls) : IsCompanyPatch(calls[i]) }

Responded == pc = "done"
ResponseBody == responses[1].body
HasMessage(resp, m) ==
    /\ resp.body.parsed # None
    /\ "message" \in DOMAIN resp.body.parsed[1]
    /\ resp.body.parsed[1]["message"] = m

AllowedStatuses == {200, 400, 405, 500}

-----------------------------------------------------------------------------
(* C1 *)

\* C1: every invocation that is not over can take a step, an invocation that
\* is over has returned exactly one response (none before), and every
\* response has a status in {200, 400, 405, 500} and the header
\* Access-Control-Allow-Origin: *.
C1_ResponseContract ==
    /\ Len(responses) = (IF Responded THEN 1 ELSE 0)
    /\ ~Responded => ENABLED Next
    /\ \A i \in 1..Len(responses) :
         /\ responses[i].status_code \in AllowedStatuses
         /\ "Access-Control-Allow-Origin" \in DOMAIN responses[i].headers
         /\ responses[i].headers["Access-Control-Allow-Origin"] = "*"

\* a POST answered 200 after four waits of the poller, a transport failure of
\* an association GET among them, and a company PATCH that failed at transport level
C1_Witness ==
    /\ Responded
    /\ responses[1].status_code = 200
    /\ Len(waits) = 4
    /\ \E i \in AssociationGets : calls[i].status_code = 0
    /\ \E i \in CompanyPatches : calls[i].status_code = 0

-----------------------------------------------------------------------------
(* C2 *)

\* C2: there is at most one create POST and at most one update PATCH; an
\* update PATCH is the second call, directly after a create POST that came
\* back 409, and carries the payload of that POST; and once the create POST
\* has come back 409 the update PATCH is the next thing done (the invocation
\* is at the update step, or the PATCH is in the log).
C2_UpdateOnlyOnConflict ==
    /\ Cardinality(Creates) <= 1
    /\ Cardinality(Updates) <= 1
    /\ \A i \in Updates :
         /\ i = 2
         /\ IsCreate(calls[1])
         /\ calls[1].status_code = 409
         /\ calls[i].json = calls[1].json
    /\ (Len(calls) >= 1 /\ calls[1].status_code = 409) =>
         \/ pc = "update" /\ Len(calls) = 1
         \/ Updates = {2}
    /\ pc = "update" => (Len(calls) = 1 /\ calls[1].status_code = 409)

\* a request that went through create (409), update, and ended 200
C2_Witness ==
    /\ Responded
    /\ responses[1].status_code = 200
    /\ Updates = {2}
    /\ calls[1].status_code = 409

-----------------------------------------------------------------------------
(* C3 *)

\* C3: when the create POST or the update PATCH has come back 400, the
\* invocation has responded 400 with the raw text of that CRM answer as its
\* message, that call is the last outbound call, and no association GET and
\* no company PATCH was issued.
C3_Crm400Propagated ==
    \A i \in Creates \cup Updates :
        calls[i].status_code = 400 =>
            /\ Responded
            /\ responses[1].status_code = 400
            /\ r.status_code = 400
            /\ HasMessage(responses[1], r.text)
            /\ i = Len(calls)
            /\ AssociationGets = {}
            /\ CompanyPatches = {}

\* the update PATCH that followed a 409 came back 400
C3_Witness ==
    /\ Responded
    /\ Updates = {2}
    /\ calls[2].status_code = 400
    /\ r.text = "t2"

-----------------------------------------------------------------------------
(* C4 *)

\* the poller has been called with max_retries m and delay d
PollerCalledWith(m, d) ==
    /\ pc \in {"poll", "sleep", "sleep_except", "polled", "done"}
    /\ max_retries = m
    /\ delay0 = d * DelayScale

\* the create POST came back with a status other than 400 and 409
CreatedPath ==
    /\ Len(calls) >= 1
    /\ calls[1].status_code \notin {0, 400, 409}

\* the create POST came back 409 and the update PATCH with a status other than 400
UpdatedPath ==
    /\ Updates = {2}
    /\ calls[2].status_code \notin {0, 400}

\* the poller is over
PollerOver == pc \in {"polled", "done"}

\* C4 as stated: on the created path the poller runs with 5 attempts and
\* delay 2; on the updated path exactly one association GET is issued and no
\* wait occurs.
C4_Original ==
    /\ CreatedPath => PollerCalledWith(5, 2)
    /\ UpdatedPath =>
         /\ PollerCalledWith(1, 0)
         /\ waits = <<>>
         /\ Cardinality(AssociationGets) <= 1
         /\ PollerOver => Cardinality(AssociationGets) = 1

\* C4 amended: the same, for the contact answers whose body holds an id.  On
\* the created path the poller then runs with 5 attempts (all 5 made when
\* none finds a company) and first delay 2; on the updated path exactly one
\* association GET is issued, whatever it returns, and no wait occurs.
C4_PollerParameters ==
    /\ (CreatedPath /\ r.id # None) =>
         /\ PollerCalledWith(5, 2)
         /\ Cardinality(AssociationGets) <= 5
         /\ waits # <<>> => waits[1].seconds = 2 * DelayScale
         /\ (PollerOver /\ company_id = None) => Cardinality(AssociationGets) = 5
    /\ (UpdatedPath /\ r.id # None) =>
         /\ PollerCalledWith(1, 0)
         /\ waits = <<>>
         /\ Cardinality(AssociationGets) <= 1
         /\ PollerOver => Cardinality(AssociationGets) = 1

\* the updated path, over after its single association GET failed at transport level
C4_Witness ==
    /\ Responded
    /\ UpdatedPath
    /\ r.id # None
    /\ Cardinality(AssociationGets) = 1
    /\ \A i \in AssociationGets : calls[i].status_code = 0

-----------------------------------------------------------------------------
(* C5 *)

\* C5: the poller issues at most max_retries association GETs; a GET is
\* followed by another only if it did not come back 200 with a non-empty
\* result list; the poller returns the first result's toObjectId of the GET
\* that did, and None, after exactly max_retries GETs, if none did.
C5_PollerResult ==
    /\ Cardinality(AssociationGets) <= max_retries
    /\ (pc \in {"poll", "sleep", "sleep_except"} /\ AssociationGets # {}) =>
         ~(associations_response.status_code = 200
           /\ Len(associations_response.results) > 0)
    /\ pc = "polled" =>
         IF /\ associations_response.status_code = 200
            /\ Len(associations_response.results) > 0
         THEN /\ company_id = Some(associations_response.results[1])
              /\ ~ENABLED PollAttempt
         ELSE /\ company_id = None
              /\ Cardinality(AssociationGets) = max_retries

\* the third GET came back with two different results and the poller returned
C5_Witness ==
    /\ pc = "polled"
    /\ Cardinality(AssociationGets) = 3
    /\ max_retries > 3
    /\ Len(associations_response.results) = 2
    /\ associations_response.results[1] # associations_response.results[2]
    /\ company_id = Some(associations_response.results[1])

-----------------------------------------------------------------------------
(* C6 *)

\* C6: the k-th wait of the poller follows its k-th attempt, every failed
\* attempt that is not the last is followed by a wait, and the k-th wait
\* lasts delay0 * 1.5^(k-1), whatever the kinds of the failures before it.
C6_BackoffAfterEveryFailure ==
    /\ \A k \in 1..Len(waits) :
         /\ waits[k].after = k
         /\ waits[k].seconds * (2 ^ (k - 1)) = delay0 * (3 ^ (k - 1))
    /\ (pc = "poll" /\ attempt < max_retries) => Len(waits) = attempt

-----------------------------------------------------------------------------
(* C7 *)

\* the invocation ended with the 200 of a processed lead
LeadProcessed ==
    /\ Responded
    /\ responses[1].status_code = 200
    /\ HasMessage(responses[1], "Lead processed successfully")

\* the company_updated flag of the response
CompanyUpdated == responses[1].body.parsed[1]["company_updated"]

\* C7: in a 200 response company_updated is true exactly when a company
\* PATCH was issued and came back 200.
C7_FlagReflectsPatchSuccess ==
    LeadProcessed =>
        (CompanyUpdated <=> \E i \in CompanyPatches : calls[i].status_code = 200)

-----------------------------------------------------------------------------
(* C8 *)

\* C8: at most one company PATCH is issued; it is issued exactly when the
\* poller returned a company id; it targets that id, the first result of the
\* successful association GET; and in a 200 response company_updated is
\* false exactly when no company PATCH was issued.
C8_PatchIffCompanyFound ==
    /\ Cardinality(CompanyPatches) <= 1
    /\ \A i \in CompanyPatches :
         /\ calls[i].target = company_id
         /\ company_id = Some(associations_response.results[1])
    /\ LeadProcessed =>
         /\ CompanyPatches # {} <=> company_id # None
         /\ CompanyUpdated = FALSE <=> CompanyPatches = {}

-----------------------------------------------------------------------------
(* C9 *)

\* C9 as stated: every response has a well-formed JSON body with a message field.
C9_Original ==
    \A i \in 1..Len(responses) :
        /\ responses[i].body.parsed # None
        /\ "message" \in DOMAIN responses[i].body.parsed[1]

\* C9 amended: every response to a request whose method is not OPTIONS has a
\* well-formed JSON body with a message field; the response to OPTIONS has
\* the empty body.
C9_JsonMessageExceptPreflight ==
    \A i \in 1..Len(responses) :
        IF req.method = "OPTIONS"
        THEN responses[i].body.raw = "" /\ responses[i].body.parsed = None
        ELSE /\ responses[i].body.parsed # None
             /\ "message" \in DOMAIN responses[i].body.parsed[1]

\* the missing-token 500 of a request that passed validation
C9_Witness ==
    /\ Responded
    /\ req.method = "POST"
    /\ responses[1].status_code = 500
    /\ HasMessage(responses[1], "Server misconfiguration: missing token")

-----------------------------------------------------------------------------
(* C10 *)

RequiredNames == {"Email", "FirstName", "LastName"}

\* the request is a POST of a JSON object whose UserDetails is an object
\* holding a non-empty Email, FirstName and LastName
RequestValid ==
    /\ req.method = "POST"
    /\ req.body.kind = "object"
    /\ req.body.ud # None
    /\ req.body.ud[1].is_object
    /\ \A f \in RequiredNames :
         f \in DOMAIN req.body.ud[1].user /\ req.body.ud[1].user[f] # ""

ValidationMessages ==
    {"Invalid JSON format", "UserDetails is required"}
    \cup {"Required field missing: " \o f : f \in RequiredNames}

\* the response is one the handler gives before its first outbound call
LocalResponse(resp) ==
    \/ req.method = "OPTIONS" /\ resp.status_code = 200
    \/ resp.status_code = 405
    \/ resp.status_code = 400 /\ \E m \in ValidationMessages : HasMessage(resp, m)
    \/ resp.status_code = 500
       /\ HasMessage(resp, "Server misconfiguration: missing token")

\* C10: an invocation that ends with the preflight 200, the 405, a validation
\* 400 or the missing-token 500 has made no outbound call; and the first
\* outbound call is the create POST, made only for a valid POST with a
\* non-empty token.
C10_NoCallBeforeChecks ==
    /\ (Responded /\ LocalResponse(responses[1])) => calls = <<>>
    /\ calls # <<>> =>
         /\ IsCreate(calls[1])
         /\ RequestValid
         /\ token # None
         /\ token[1] # ""

\* a valid POST refused for an empty token, without any outbound call
C10_Witness ==
    /\ Responded
    /\ RequestValid
    /\ token = Some("")
    /\ responses[1].status_code = 500
    /\ calls = <<>>

-----------------------------------------------------------------------------
(* C11 *)

\* the field is absent from the UserDetails value or empty in it
AbsentOrEmpty(f) ==
    f \notin DOMAIN req.body.ud[1].user \/ req.body.ud[1].user[f] = ""

\* the first of Email, FirstName, LastName that is absent or empty, if any
ExpectedMissing ==
    IF AbsentOrEmpty("Email") THEN Some("Email")
    ELSE IF AbsentOrEmpty("FirstName") THEN Some("FirstName")
    ELSE IF AbsentOrEmpty("LastName") THEN Some("LastName")
    ELSE None

\* what C11 says of a request once the handler has taken its first step
FieldOrderOutcome ==
    IF ExpectedMissing # None
    THEN /\ Responded
         /\ responses[1].status_code = 400
         /\ HasMessage(responses[1], "Required field missing: " \o ExpectedMissing[1])
         /\ calls = <<>>
    ELSE ~(Responded /\ responses[1].status_code = 400 /\ calls = <<>>)

\* C11: for every POST of a JSON object that contains UserDetails, the
\* response is the 400 naming the first of Email, FirstName, LastName that
\* is absent or empty, and no validation 400 is given if none is.
C11_FieldOrder ==
    (pc # "start" /\ req.method = "POST" /\ req.body.kind = "object"
     /\ req.body.ud # None) => FieldOrderOutcome

\* what the code does satisfy: the same, for the requests whose UserDetails
\* value is itself a JSON object
FieldOrderForObjects ==
    (pc # "start" /\ req.method = "POST" /\ req.body.kind = "object"
     /\ req.body.ud # None /\ req.body.ud[1].is_object) => FieldOrderOutcome

-----------------------------------------------------------------------------
(* C12 *)

\* the body parses as JSON
ParsesAsJson == req.body.kind \notin {"undecodable", "invalid_json"}

\* the parsed body is a JSON object that holds the key UserDetails
HasUserDetailsKey == req.body.kind = "object" /\ req.body.ud # None

\* C12: a POST whose body does not parse as JSON, be it at the decoding of
\* the bytes or at the parsing of the text, is answered 400 'Invalid JSON
\* format'; a POST whose body parses as JSON of any type but has no key
\* UserDetails is answered 400 'UserDetails is required'.
C12_JsonAndUserDetails ==
    (pc # "start" /\ req.method = "POST") =>
        /\ ~ParsesAsJson =>
             /\ Responded
             /\ responses[1].status_code = 400
             /\ HasMessage(responses[1], "Invalid JSON format")
        /\ (ParsesAsJson /\ ~HasUserDetailsKey) =>
             /\ Responded
             /\ responses[1].status_code = 400
             /\ HasMessage(responses[1], "UserDetails is required")

-----------------------------------------------------------------------------
(* C13 *)

\* the last association GET came back 200 with a non-empty result list
LastGetFound ==
    /\ associations_response.status_code = 200
    /\ Len(associations_response.results) > 0

\* C13: the poller itself never ends the request; once the contact id is
\* extracted the request ends with the 200 of a processed lead; and when no
\* association GET found a company, that 200 says company_updated=false and
\* no company PATCH was issued.
C13_AssociationFailureIsSilent ==
    /\ pc \in {"poll", "sleep", "sleep_except", "polled"} => responses = <<>>
    /\ (Responded /\ contact_id # None) =>
         /\ LeadProcessed
         /\ ~LastGetFound => (CompanyUpdated = FALSE /\ CompanyPatches = {})

\* five association GETs that all failed at transport level, then the 200
C13_Witness ==
    /\ LeadProcessed
    /\ Cardinality(AssociationGets) = 5
    /\ \A i \in AssociationGets : calls[i].status_code = 0
    /\ CompanyUpdated = FALSE

-----------------------------------------------------------------------------
(* C14 *)

\* C14: whenever the poller returned a company id, and whatever the company
\* PATCH came back with, the request ends with 200 'Lead processed
\* successfully'.
C14_CompanyFailureIsSilent ==
    /\ CompanyPatches # {} => LeadProcessed
    /\ (Responded /\ company_id # None) => LeadProcessed

\* the company PATCH failed at transport level and the request ended 200
C14_Witness ==
    /\ LeadProcessed
    /\ \E i \in CompanyPatches : calls[i].status_code = 0

-----------------------------------------------------------------------------
(* C17 *)

\* the request ended with a 500 carrying this message
Failed500(m) ==
    /\ Responded
    /\ responses[1].status_code = 500
    /\ HasMessage(responses[1], m)

NoCompanyStep == AssociationGets = {} /\ CompanyPatches = {}

\* C17 as stated: a create POST that failed at transport level, and a create
\* or update answer with a status other than 400 and no id, end in 500
\* 'Internal server error'; an update PATCH that failed at transport level
\* ends in 500 'PATCH update failed'; no association GET or company PATCH
\* follows any of them.
C17_Original ==
    /\ (Len(calls) = 1 /\ calls[1].status_code = 0) =>
         Failed500("Internal server error")
    /\ (Len(calls) = 1 /\ calls[1].status_code \notin {0, 400} /\ r.id = None) =>
         Failed500("Internal server error")
    /\ (Updates = {2} /\ calls[2].status_code \notin {0, 400} /\ r.id = None) =>
         (Failed500("Internal server error") /\ Len(calls) = 2)
    /\ (Updates = {2} /\ calls[2].status_code = 0) =>
         (Failed500("PATCH update failed") /\ Len(calls) = 2)

\* C17 amended: the same, the create answer without an id being one with a
\* status other than 400 and 409 (after a 409 the id is read from the update
\* answer, not from the create answer).
C17_UnhandledFaults ==
    /\ (Len(calls) = 1 /\ calls[1].status_code = 0) =>
         Failed500("Internal server error")
    /\ (Len(calls) = 1 /\ calls[1].status_code \notin {0, 400, 409} /\ r.id = None) =>
         Failed500("Internal server error")
    /\ (Updates = {2} /\ calls[2].status_code \notin {0, 400} /\ r.id = None) =>
         (Failed500("Internal server error") /\ Len(calls) = 2)
    /\ (Updates = {2} /\ calls[2].status_code = 0) =>
         (Failed500("PATCH update failed") /\ Len(calls) = 2)
    /\ (Responded /\ contact_id = None) => NoCompanyStep

\* the update PATCH failed at transport level
C17_Witness ==
    /\ Updates = {2}
    /\ calls[2].status_code = 0
    /\ Failed500("PATCH update failed")

-----------------------------------------------------------------------------
(* C18 *)

\* C18: the k-th wait follows the k-th attempt, which is not the last one
\* and did not find a company; a poller that made at least one attempt ends
\* with one wait less than it issued GETs, and a poller with max_retries 1
\* never waits.
C18_WaitsOnlyBetweenAttempts ==
    /\ \A k \in 1..Len(waits) :
         /\ waits[k].after = k
         /\ waits[k].after < max_retries
    /\ pc \in {"sleep", "sleep_except"} => ~LastGetFound
    /\ Len(waits) <= Cardinality(AssociationGets)
    /\ (pc = "polled" /\ AssociationGets # {}) =>
         Len(waits) = Cardinality(AssociationGets) - 1
    /\ max_retries <= 1 => waits = <<>>

\* a poller of three attempts that found nothing: three GETs, two waits
C18_Witness ==
    /\ pc = "polled"
    /\ max_retries = 3
    /\ company_id = None
    /\ Cardinality(AssociationGets) = 3
    /\ Len(waits) = 2

-----------------------------------------------------------------------------
(* C19 *)

\* place of a call in the chain: create, update, association GET, company PATCH
Rank(c) ==
    IF IsCreate(c) THEN 1
    ELSE IF IsUpdate(c) THEN 2
    ELSE IF IsAssociationGet(c) THEN 3
    ELSE 4

\* the outbound calls so far form the chain: one create POST first, at most
\* one update PATCH, at most 5 association GETs, at most one company PATCH,
\* in this order; at most 7 calls, at most 4 on the update path; a GET only
\* for the extracted contact id, a company PATCH only after a GET that found
\* a company
ChainOrdered ==
    /\ Len(calls) <= 7
    /\ Updates # {} => Len(calls) <= 4
    /\ calls # <<>> => Creates = {1}
    /\ Cardinality(Updates) <= 1
    /\ Cardinality(AssociationGets) <= 5
    /\ Cardinality(CompanyPatches) <= 1
    /\ \A i, j \in 1..Len(calls) : i < j => Rank(calls[i]) <= Rank(calls[j])
    /\ \A i \in AssociationGets :
         contact_id # None /\ calls[i].target = contact_id
    /\ \A i \in CompanyPatches :
         /\ i - 1 \in AssociationGets
         /\ calls[i - 1].status_code = 200
         /\ LastGetFound

\* C19: every invocation ends with a response, and at every moment its
\* outbound calls form the ordered chain of at most 7 calls.
C19_TerminatesWithOrderedChain == []ChainOrdered /\ <>Responded

\* the longest chain: create, five association GETs, company PATCH
C19_Witness ==
    /\ Responded
    /\ Len(calls) = 7
    /\ Cardinality(AssociationGets) = 5
    /\ CompanyPatches = {7}

-----------------------------------------------------------------------------
(* C20 *)

\* the properties of the contact record sent by the create POST
ContactRecord == calls[1].json

\* C20: the bpa_sales_office and market_type of every company PATCH equal
\* those of the contact record of the same request, and its
\* sales_account_manager is 'Sebastien Rocco' exactly when its
\* bpa_sales_office is 'BPA US', else 'Damien Emery'.
C20_ClassificationsAgree ==
    \A i \in CompanyPatches :
        LET company == calls[i].json IN
        /\ company.bpa_sales_office = ContactRecord.bpa_sales_office
        /\ company.market_type = ContactRecord.market_type
        /\ company.sales_account_manager =
             (IF company.bpa_sales_office = "BPA US"
              THEN "Sebastien Rocco" ELSE "Damien Emery")

\* a company PATCH, after an update PATCH, for a submitted country of the US
\* office that is not A-rated
C20_Witness ==
    /\ CompanyPatches # {}
    /\ Updates # {}
    /\ "Country" \in DOMAIN req.body.ud[1].user
    /\ ContactRecord.bpa_sales_office = "BPA US"
    /\ ContactRecord.market_type = "B"
    /\ calls[Len(calls)].json.sales_account_manager = "Sebastien Rocco"

-----------------------------------------------------------------------------
(* C15 *)

\* the index in the call log of the create POST of the second submission
SecondCreate == CHOOSE i \in Creates : i > 1

\* the second submission has reached the CRM, with the Email of the first
SameEmail ==
    /\ Cardinality(Creates) = 2
    /\ calls[SecondCreate].json.email = calls[1].json.email

\* C15: of two successive valid submissions with the same Email the first
\* takes the created path (its create POST comes back 201 and no update PATCH
\* follows it), the second takes the update path (its create POST comes back
\* 409, the update PATCH for that Email is its next call, the poller makes at
\* most one GET), and both responses have status 200.
C15_CreateThenUpdate ==
    /\ Len(responses) >= 1 => calls[1].status_code = 201
    /\ SameEmail =>
         /\ calls[1].status_code = 201
         /\ Updates \cap 1..SecondCreate = {}
         /\ calls[SecondCreate].status_code = 409
         /\ pc # "update" =>
              /\ SecondCreate + 1 \in Updates
              /\ calls[SecondCreate + 1].target = Some(calls[1].json.email)
         /\ Cardinality({ i \in AssociationGets : i > SecondCreate }) <= 1
    /\ \A i \in 1..Len(responses) : responses[i].status_code = 200

\* both submissions of one Email answered, the second after an update PATCH
C15_Witness ==
    /\ Len(responses) = 2
    /\ SameEmail
    /\ Updates # {}
    /\ responses[1].status_code = 200
    /\ responses[2].status_code = 200

-----------------------------------------------------------------------------
(* C16 *)

\* the calls of the invocation with frame f carry what its own request and
\* the answers it received determine
OwnCalls(f) ==
    LET user == f.req.body.ud[1].user IN
    \A i \in 1..Len(f.calls) :
        LET c == f.calls[i] IN
        /\ IsCreate(c) => i = 1 /\ c.json = BuildContact(user)
        /\ IsUpdate(c) =>
             /\ f.calls[i - 1].status_code = 409
             /\ c.json = BuildContact(user)
             /\ c.target = Some(user["Email"])
        /\ IsAssociationGet(c) => c.target = Some(CrmContactId(user["Email"]))
        /\ IsCompanyPatch(c) =>
             /\ f.calls[i - 1].status_code = 200
             /\ c.target = f.company_id
             /\ c.json = BuildCompany(user["Country"])

\* its waits start at the delay its own poller was called with and follow
\* that poller's own attempts
OwnWaits(f) ==
    /\ Len(f.waits) <= Cardinality({ i \in 1..Len(f.calls) : IsAssociationGet(f.calls[i]) })
    /\ \A k \in 1..Len(f.waits) :
        /\ f.waits[k].after = k
        /\ k = 1 => f.waits[k].seconds = f.delay0
        /\ k > 1 => f.waits[k].seconds \in
                      {f.waits[k - 1].seconds, Times1_5(f.waits[k - 1].seconds)}

\* its response is the one its own outcome gives
OwnResponse(f) ==
    /\ Len(f.responses) = (IF f.pc = "done" THEN 1 ELSE 0)
    /\ f.pc = "done" => f.responses[1] = SuccessResponse(f.company_id)

Sleeping(f) == f.pc \in {"sleep", "sleep_except"}

====
